---- MODULE Spec2Model ----
(***************************************************************************)
(* A model of fargate_scraper (src/fargate_scraper.py): the paginated      *)
(* query adapter (make_paginator), the batching utility (chunk), the       *)
(* discovery pipeline (Scraper.get_all_task_definitions,                   *)
(* Scraper.get_scrapable_task_definitions, Scraper.get_configs) and the    *)
(* poll loop with its signal-driven shutdown (Scraper.start, Scraper.stop, *)
(* main).                                                                  *)
(*                                                                         *)
(* Python values are modelled as follows.  A dict is a record; a key that  *)
(* a response may lack is paired with a has<Key> flag, so that dict.get    *)
(* (default on absence) and dict[...] (KeyError on absence) differ.  None  *)
(* is the string NoneValue.  A generator is a small state machine whose    *)
(* program counter stops at each yield.  A list object that the generator  *)
(* shares with its consumer is a variable, and a reference to it reads the *)
(* variable's current value.                                               *)
(***************************************************************************)
EXTENDS Naturals, Sequences, FiniteSets, TLC

VARIABLES
    \* make_paginator: the query source and the generator's frame
    pages, pgToken, pgPc, pgItems, pgPos, pgOut, pgCalls,
    \* chunk: the generator's frame, the list object it yields, its consumer
    chIn, chSize, chIdx, chBuf, chPc, consumer, batches, heldRefs,
    \* the discovery pipeline: the cluster as the API reports it, and results
    cluster, scrapable, configs, plPc,
    \* the poll loop: Scraper's fields, the output file, main's position
    pc, running, shutdown_event, file, elapsed, cycles, signals,
    outcome, prevOutcome, stopCalled, stopInWait, cyclesAtStop,
    cyclesAtWaitStop,
    leftWaitAt

pgVars == <<pages, pgToken, pgPc, pgItems, pgPos, pgOut, pgCalls>>
chVars == <<chIn, chSize, chIdx, chBuf, chPc, consumer, batches, heldRefs>>
plVars == <<cluster, scrapable, configs, plPc>>
loopVars == <<pc, running, shutdown_event, file, elapsed, cycles, signals,
              outcome, prevOutcome, stopCalled, stopInWait,
              cyclesAtStop, cyclesAtWaitStop, leftWaitAt>>
vars == <<pgVars, chVars, plVars, loopVars>>

----------------------------------------------------------------------------
(* Bounds of the model *)

MaxPages == 3
MaxPageItems == 2
MaxLen == 7
MaxChunk == 3
MaxListedServices == 21
MaxListedTasks == 201
ListPageSize == 1
MaxServices == 2
MaxContainers == 2
MaxTasks == 2
Interval == 2
MaxCycles == 3
MaxSignals == 2

----------------------------------------------------------------------------
(* Python values *)

NoneValue == "<None>"

\* Python truthiness of a token: None and the empty string are falsy.
Falsy(v) == v = NoneValue \/ v = ""

RECURSIVE Concat(_)
Concat(seqs) ==
    IF seqs = <<>> THEN <<>> ELSE Head(seqs) \o Concat(Tail(seqs))

Range(s) == {s[i] : i \in DOMAIN s}

SeqsUpTo(S, n) == UNION {[1..k -> S] : k \in 0..n}

----------------------------------------------------------------------------
(* make_paginator *)

\* The cursor a source hands out with its i-th page.
Digit == <<"0", "1", "2", "3", "4", "5", "6", "7", "8", "9">>
Cursor(i) == "t" \o Digit[(i \div 10) + 1] \o Digit[(i % 10) + 1]

\* The answer of the source pgs to a call with nextToken = token: the first
\* page for the empty token, else the page after the one that handed out the
\* cursor.
FnOf(pgs, token) ==
    IF token = "" THEN pgs[1]
    ELSE pgs[1 + CHOOSE i \in 1..Len(pgs) : Cursor(i) = token]

Fn(token) == FnOf(pages, token)

\* response.get(items_key, [])
ResponseItems(response) ==
    IF response.hasItems THEN response.items ELSE <<>>

\* response.get("nextToken")
ResponseToken(response) ==
    IF response.hasToken THEN response.nextToken ELSE NoneValue

\* A paginator that also stops on a page without items.
PaginatorStopsOnEmptyPage(token, items) == Falsy(token) \/ items = <<>>

\* if not token: break
PaginatorStops(token, items) == Falsy(token)

\* token = ""  (the generator's frame before its first step)
PaginatorStart ==
    /\ pgToken = ""
    /\ pgPc = "call"
    /\ pgItems = <<>>
    /\ pgPos = 0
    /\ pgOut = <<>>
    /\ pgCalls = 0

\* response = fn(nextToken=token); items = ...; token = ...
PaginatorCall ==
    /\ pgPc = "call"
    /\ LET response == Fn(pgToken) IN
        /\ pgItems' = ResponseItems(response)
        /\ pgToken' = ResponseToken(response)
    /\ pgPos' = 0
    /\ pgCalls' = pgCalls + 1
    /\ pgPc' = "items"
    /\ UNCHANGED <<pages, pgOut>>

\* for item in items: yield item
PaginatorYield ==
    /\ pgPc = "items"
    /\ pgPos < Len(pgItems)
    /\ pgPos' = pgPos + 1
    /\ pgOut' = Append(pgOut, pgItems[pgPos + 1])
    /\ UNCHANGED <<pages, pgToken, pgPc, pgItems, pgCalls>>

\* the end of the for loop: break, or go round the while loop again
PaginatorCheck ==
    /\ pgPc = "items"
    /\ pgPos = Len(pgItems)
    /\ pgPc' = IF PaginatorStops(pgToken, pgItems) THEN "done" ELSE "call"
    /\ UNCHANGED <<pages, pgToken, pgItems, pgPos, pgOut, pgCalls>>

----------------------------------------------------------------------------
(* chunk *)

\* A chunk that yields one item late.
ChunkFullLate(buf, size) == Len(buf) > size

\* if len(chunk) == chunksize
ChunkFull(buf, size) == Len(buf) = size

\* chunk[:] = []  (the list object is emptied in place, not replaced)
ChunkCleared(buf) == <<>>

\* if chunk:  (after the loop)
ChunkRemainder(buf) == buf # <<>>

\* chunk = []  (the generator's frame before its first step)
ChunkStart ==
    /\ chIdx = 0
    /\ chBuf = <<>>
    /\ chPc = "loop"
    /\ batches = <<>>
    /\ heldRefs = 0

\* A yield hands the consumer a reference to the list object.  The consumer
\* that uses the batch before asking for the next one reads it now
\* (batches); every consumer now holds one more reference to it (heldRefs).
Yielded ==
    /\ batches' = Append(batches, chBuf')
    /\ heldRefs' = heldRefs + 1

\* for item in iterable: chunk.append(item); if full: yield chunk
ChunkNext ==
    /\ chPc = "loop"
    /\ chIdx < Len(chIn)
    /\ chIdx' = chIdx + 1
    /\ chBuf' = Append(chBuf, chIn[chIdx + 1])
    /\ IF ChunkFull(chBuf', chSize)
       THEN Yielded /\ chPc' = "yielded"
       ELSE UNCHANGED <<batches, heldRefs, chPc>>
    /\ UNCHANGED <<chIn, chSize, consumer>>

\* the generator is resumed after the yield in the loop: chunk[:] = []
ChunkResume ==
    /\ chPc = "yielded"
    /\ chBuf' = ChunkCleared(chBuf)
    /\ chPc' = "loop"
    /\ UNCHANGED <<chIn, chSize, chIdx, consumer, batches, heldRefs>>

\* the iterable is exhausted: if chunk: yield chunk
ChunkExhausted ==
    /\ chPc = "loop"
    /\ chIdx = Len(chIn)
    /\ IF ChunkRemainder(chBuf)
       THEN /\ chBuf' = chBuf
            /\ Yielded
            /\ chPc' = "yielded_last"
       ELSE /\ chPc' = "done"
            /\ UNCHANGED <<chBuf, batches, heldRefs>>
    /\ UNCHANGED <<chIn, chSize, chIdx, consumer>>

\* the generator is resumed after its last yield and returns
ChunkReturn ==
    /\ chPc = "yielded_last"
    /\ chPc' = "done"
    /\ UNCHANGED <<chIn, chSize, chIdx, chBuf, consumer, batches, heldRefs>>

\* What a consumer reads that keeps the batches (list(chunk(...))) and looks
\* at them later: every reference is to the one list object.
Collected == [i \in 1..heldRefs |-> chBuf]

----------------------------------------------------------------------------
(* The generators as their for-loop consumers see them *)

\* Every item the paginator yields over the source pgs, from token on.
RECURSIVE PaginatorRun(_, _)
PaginatorRun(pgs, token) ==
    LET response == FnOf(pgs, token)
        items == ResponseItems(response)
        next == ResponseToken(response)
    IN  items \o (IF PaginatorStops(next, items) THEN <<>>
                  ELSE PaginatorRun(pgs, next))

\* The batches a for loop over chunk(seq, size) sees, each read at its yield.
RECURSIVE ChunkLoop(_, _, _, _)
ChunkLoop(seq, idx, buf, size) ==
    IF idx = Len(seq)
    THEN IF ChunkRemainder(buf) THEN <<buf>> ELSE <<>>
    ELSE LET appended == Append(buf, seq[idx + 1]) IN
         IF ChunkFull(appended, size)
         THEN <<appended>> \o ChunkLoop(seq, idx + 1, ChunkCleared(appended), size)
         ELSE ChunkLoop(seq, idx + 1, appended, size)

ChunkBatches(seq, size) == ChunkLoop(seq, 0, <<>>, size)

----------------------------------------------------------------------------
(* The cluster query API, answering from the record cl *)

REQUIRED_ENV_VARS == {"METRICS_PORT"}

\* chunk's default chunksize, used for describe_services
ServicesChunkSize == 10
\* chunksize=100, used for describe_tasks
TasksChunkSize == 100

\* "%s" of the default port of task_definition_vars.get("METRICS_PORT", 8000)
DefaultMetricsPort == "8000"

Min(a, b) == IF a < b THEN a ELSE b

\* A paginated list operation over items: ListPageSize items a page, a
\* cursor with every page but the last.
ListPages(items) ==
    LET n == Len(items)
        np == IF n = 0 THEN 1 ELSE (n + ListPageSize - 1) \div ListPageSize
    IN  [p \in 1..np |->
            [hasItems |-> TRUE,
             items |-> SubSeq(items, (p - 1) * ListPageSize + 1,
                              Min(p * ListPageSize, n)),
             hasToken |-> p < np,
             nextToken |-> IF p < np THEN Cursor(p) ELSE NoneValue]]

\* ecs.list_services / ecs.list_tasks: the ARN of an entity is its index.
ListArns(entities) == ListPages([i \in 1..Len(entities) |-> i])

\* ecs.describe_services(services=subset).get("services", []) and
\* ecs.describe_tasks(tasks=subset).get("tasks", [])
Describe(entities, subset) == [i \in 1..Len(subset) |-> entities[subset[i]]]

----------------------------------------------------------------------------
(* Scraper.get_all_task_definitions *)

\* A filter that lets every status pass.
IsActiveAlways(description) == TRUE

\* if description["status"] == "ACTIVE"
IsActive(description) == description.status = "ACTIVE"

RECURSIVE ActiveTaskDefinitions(_)
ActiveTaskDefinitions(descriptions) ==
    IF descriptions = <<>> THEN <<>>
    ELSE (IF IsActive(Head(descriptions))
          THEN <<Head(descriptions).taskDefinition>> ELSE <<>>)
         \o ActiveTaskDefinitions(Tail(descriptions))

RECURSIVE DescribeServiceBatches(_, _)
DescribeServiceBatches(cl, subsets) ==
    IF subsets = <<>> THEN <<>>
    ELSE ActiveTaskDefinitions(Describe(cl.services, Head(subsets)))
         \o DescribeServiceBatches(cl, Tail(subsets))

\* The task-definition ARNs the generator yields, in order.
GetAllTaskDefinitions(cl) ==
    LET service_arns == PaginatorRun(ListArns(cl.services), "")
    IN  DescribeServiceBatches(cl, ChunkBatches(service_arns, ServicesChunkSize))

----------------------------------------------------------------------------
(* Scraper.get_scrapable_task_definitions *)

\* A Python dict is a function on its keys.
EmptyDict == <<>>
HasKey(d, k) == k \in DOMAIN d
DictSet(d, k, v) == [x \in (DOMAIN d) \cup {k} |-> IF x = k THEN v ELSE d[x]]

\* name, value = env_var["name"], env_var["value"] raises KeyError
EnvVarRaises(env_var) == ~env_var.hasValue

\* if name in REQUIRED_ENV_VARS
IsRequired(name) == name \in REQUIRED_ENV_VARS

\* setdefault(task_definition, {}); [task_definition][name] = value;
\* [task_definition]["FAMILY"] = definition["family"]
Record(mapping, task_definition, name, value, family) ==
    LET entry == IF HasKey(mapping, task_definition)
                 THEN mapping[task_definition] ELSE EmptyDict
    IN  DictSet(mapping, task_definition,
                DictSet(DictSet(entry, name, value), "FAMILY", family))

RECURSIVE ScanEnvironment(_, _, _, _)
ScanEnvironment(mapping, task_definition, family, environment) ==
    IF environment = <<>> THEN mapping
    ELSE LET env_var == Head(environment) IN
         ScanEnvironment(
            IF IsRequired(env_var.name)
            THEN Record(mapping, task_definition, env_var.name,
                        env_var.value, family)
            ELSE mapping,
            task_definition, family, Tail(environment))

RECURSIVE ScanContainers(_, _, _, _)
ScanContainers(mapping, task_definition, family, container_definitions) ==
    IF container_definitions = <<>> THEN mapping
    ELSE ScanContainers(
            ScanEnvironment(mapping, task_definition, family,
                            Head(container_definitions).environment),
            task_definition, family, Tail(container_definitions))

RECURSIVE ScanTaskDefinitions(_, _, _)
ScanTaskDefinitions(mapping, cl, task_definitions) ==
    IF task_definitions = <<>> THEN mapping
    ELSE LET task_definition == Head(task_definitions)
             definition == cl.taskDefs[task_definition]
         IN  ScanTaskDefinitions(
                ScanContainers(mapping, task_definition, definition.family,
                               definition.containerDefinitions),
                cl, Tail(task_definitions))

\* Some env_var the scan comes to has no "value".
ScrapableRaises(cl) ==
    \E task_definition \in Range(GetAllTaskDefinitions(cl)) :
        \E container \in Range(cl.taskDefs[task_definition].containerDefinitions) :
            \E env_var \in Range(container.environment) : EnvVarRaises(env_var)

\* The call's outcome: KeyError, or the mapping returned.
GetScrapableTaskDefinitions(cl) ==
    IF ScrapableRaises(cl)
    THEN [raised |-> TRUE, value |-> EmptyDict]
    ELSE [raised |-> FALSE,
          value |-> ScanTaskDefinitions(EmptyDict, cl, GetAllTaskDefinitions(cl))]

----------------------------------------------------------------------------
(* Scraper.get_configs *)

\* dict.get(key, default)
DictGet(d, k, default) == IF HasKey(d, k) THEN d[k] ELSE default

\* task_definition_vars = scrapable_task_definitions.get(arn);
\* if not task_definition_vars: continue
IsScrapable(mapping, task_definition_arn) ==
    /\ HasKey(mapping, task_definition_arn)
    /\ DOMAIN mapping[task_definition_arn] # {}

\* A match on the type alone.
AttachmentMatchesType(attachment) ==
    attachment.type = "ElasticNetworkInterface"

\* attachment.get("type") == "ElasticNetworkInterface" and
\* attachment.get("status") == "ATTACHED"
AttachmentMatches(attachment) ==
    /\ attachment.type = "ElasticNetworkInterface"
    /\ attachment.status = "ATTACHED"

\* description.get("attachments", []) and attachment.get("details", [])
Attachments(description) ==
    IF description.hasAttachments THEN description.attachments ELSE <<>>
Details(attachment) ==
    IF attachment.hasDetails THEN attachment.details ELSE <<>>

\* name, value = details["name"], details["value"] raises KeyError
DetailRaises(detail) == ~detail.hasValue

\* if name == "privateIPv4Address"
IsAddress(detail) == detail.name = "privateIPv4Address"

\* "%(host)s:%(port)s" % {"host": value, "port": port}
Target(host, port) == host \o ":" \o port

\* scrapable_configs[family].append(target), scrapable_configs being a
\* defaultdict(list) that keeps its keys in insertion order
AppendTarget(groups, family, target) ==
    IF \E g \in DOMAIN groups : groups[g].family = family
    THEN [g \in DOMAIN groups |->
            IF groups[g].family = family
            THEN [groups[g] EXCEPT !.targets = Append(@, target)]
            ELSE groups[g]]
    ELSE Append(groups, [family |-> family, targets |-> <<target>>])

RECURSIVE ScanDetails(_, _, _)
ScanDetails(groups, task_definition_vars, attachment_details) ==
    IF attachment_details = <<>> THEN groups
    ELSE LET details == Head(attachment_details) IN
         ScanDetails(
            IF IsAddress(details)
            THEN AppendTarget(
                    groups,
                    DictGet(task_definition_vars, "FAMILY", "unknown"),
                    Target(details.value,
                           DictGet(task_definition_vars, "METRICS_PORT",
                                   DefaultMetricsPort)))
            ELSE groups,
            task_definition_vars, Tail(attachment_details))

RECURSIVE ScanAttachments(_, _, _)
ScanAttachments(groups, task_definition_vars, attachments) ==
    IF attachments = <<>> THEN groups
    ELSE ScanAttachments(
            IF AttachmentMatches(Head(attachments))
            THEN ScanDetails(groups, task_definition_vars,
                             Details(Head(attachments)))
            ELSE groups,
            task_definition_vars, Tail(attachments))

RECURSIVE ScanTasks(_, _, _)
ScanTasks(groups, mapping, descriptions) ==
    IF descriptions = <<>> THEN groups
    ELSE LET description == Head(descriptions) IN
         ScanTasks(
            IF IsScrapable(mapping, description.taskDefinitionArn)
            THEN ScanAttachments(groups, mapping[description.taskDefinitionArn],
                                 Attachments(description))
            ELSE groups,
            mapping, Tail(descriptions))

RECURSIVE DescribeTaskBatches(_, _, _, _)
DescribeTaskBatches(groups, mapping, cl, subsets) ==
    IF subsets = <<>> THEN groups
    ELSE DescribeTaskBatches(
            ScanTasks(groups, mapping, Describe(cl.tasks, Head(subsets))),
            mapping, cl, Tail(subsets))

\* Some detail the scan comes to has no "value".
JoinRaises(mapping, cl) ==
    \E description \in Range(cl.tasks) :
        /\ IsScrapable(mapping, description.taskDefinitionArn)
        /\ \E attachment \in Range(Attachments(description)) :
            /\ AttachmentMatches(attachment)
            /\ \E detail \in Range(Details(attachment)) : DetailRaises(detail)

\* return [{"targets": targets, "labels": {"family": family}} for ...]
Snapshot(groups) ==
    [g \in DOMAIN groups |->
        [targets |-> groups[g].targets,
         labels |-> [family |-> groups[g].family]]]

\* The call's outcome: KeyError, or the list returned; mapping is the value
\* of the local scrapable_task_definitions.
GetConfigs(cl) ==
    LET scrapable_task_definitions == GetScrapableTaskDefinitions(cl)
        mapping == scrapable_task_definitions.value
        task_arns == PaginatorRun(ListArns(cl.tasks), "")
    IN  IF scrapable_task_definitions.raised \/ JoinRaises(mapping, cl)
        THEN [raised |-> TRUE, mapping |-> mapping, value |-> <<>>]
        ELSE [raised |-> FALSE, mapping |-> mapping,
              value |-> Snapshot(DescribeTaskBatches(
                            <<>>, mapping, cl,
                            ChunkBatches(task_arns, TasksChunkSize)))]

----------------------------------------------------------------------------
(* Clusters the API may report *)

EnvVar(name, value) == [name |-> name, hasValue |-> TRUE, value |-> value]
NoValue(name) == [name |-> name, hasValue |-> FALSE, value |-> NoneValue]
Container(environment) == [environment |-> environment]
Service(status, task_definition) ==
    [status |-> status, taskDefinition |-> task_definition]
Attachment(type, status, details) ==
    [type |-> type, status |-> status, hasDetails |-> TRUE, details |-> details]
Task(task_definition, attachments) ==
    [taskDefinitionArn |-> task_definition, hasAttachments |-> TRUE,
     attachments |-> attachments]

TDArns == {"td1", "td2"}
FamilyOf(td) == IF td = "td1" THEN "web" ELSE "api"

ServiceOptions == {Service(st, td) : st \in {"ACTIVE", "DRAINING"}, td \in TDArns}

\* Well-formed container environments.
Environments ==
    {<<>>,
     <<EnvVar("METRICS_PORT", "9090")>>,
     <<EnvVar("LOG_LEVEL", "debug"), EnvVar("METRICS_PORT", "8080")>>}

TaskDefOptions(td) ==
    {[family |-> FamilyOf(td), containerDefinitions |-> cs] :
        cs \in SeqsUpTo({Container(e) : e \in Environments}, MaxContainers)}

\* Clusters for the task-definition filter: any services, any containers.
FilterClusters ==
    {[services |-> ss, taskDefs |-> tds, tasks |-> <<>>] :
        ss \in SeqsUpTo(ServiceOptions, MaxServices),
        tds \in {f \in [TDArns -> UNION {TaskDefOptions(td) : td \in TDArns}] :
                    \A td \in TDArns : f[td].family = FamilyOf(td)}}

ENI == "ElasticNetworkInterface"
Address(ip) == EnvVar("privateIPv4Address", ip)

\* The attachments of a task: the key absent, none, one or two interfaces,
\* other types and statuses, details absent, a detail without a value.
AttachmentLists ==
    {<<>>,
     <<Attachment(ENI, "ATTACHED", <<Address("10.0.0.5")>>)>>,
     <<Attachment(ENI, "ATTACHED",
                  <<EnvVar("macAddress", "0a:1b"), Address("10.0.0.6")>>)>>,
     <<Attachment(ENI, "PRECREATED", <<Address("10.0.0.5")>>)>>,
     <<Attachment("ElasticBlockStorage", "ATTACHED", <<Address("10.0.0.5")>>)>>,
     <<[type |-> ENI, status |-> "ATTACHED", hasDetails |-> FALSE,
        details |-> <<>>]>>,
     <<Attachment(ENI, "ATTACHED", <<NoValue("privateIPv4Address")>>)>>,
     <<Attachment(ENI, "ATTACHED", <<Address("10.0.0.5")>>),
       Attachment(ENI, "ATTACHED", <<Address("10.0.0.6")>>)>>,
     <<Attachment(ENI, "ATTACHED", <<Address("10.0.0.5")>>),
       Attachment(ENI, "PRECREATED", <<Address("10.0.0.6")>>)>>}

TaskOptions ==
    {Task(td, as) : td \in TDArns, as \in AttachmentLists}
    \cup {[taskDefinitionArn |-> td, hasAttachments |-> FALSE,
           attachments |-> <<>>] : td \in TDArns}

\* The METRICS_PORT entry of td1's container: a value, the empty string, or
\* no value at all.
PortEntries ==
    {EnvVar("METRICS_PORT", "9090"), EnvVar("METRICS_PORT", ""),
     NoValue("METRICS_PORT")}

\* Clusters for the join: td1's service is active, td2's may be draining and
\* td2 may share td1's family; any tasks.
JoinClusters ==
    {[services |-> <<Service("ACTIVE", "td1"), Service(st, "td2")>>,
      taskDefs |->
        [td \in TDArns |->
            IF td = "td1"
            THEN [family |-> "web",
                  containerDefinitions |-> <<Container(<<port>>)>>]
            ELSE [family |-> fam,
                  containerDefinitions |->
                    <<Container(<<EnvVar("METRICS_PORT", "8080")>>)>>]],
      tasks |-> ts] :
        st \in {"ACTIVE", "DRAINING"}, port \in PortEntries,
        fam \in {"web", "api"}, ts \in SeqsUpTo(TaskOptions, MaxTasks)}

----------------------------------------------------------------------------
(* The pipeline's calls *)

NoCluster == [services |-> <<>>, taskDefs |-> <<>>, tasks |-> <<>>]

PipelineStart ==
    /\ scrapable = EmptyDict
    /\ configs = <<>>
    /\ plPc = "ready"

\* scraper.get_scrapable_task_definitions()
GetScrapableTaskDefinitionsCall ==
    /\ plPc = "ready"
    /\ LET result == GetScrapableTaskDefinitions(cluster) IN
        /\ scrapable' = result.value
        /\ plPc' = IF result.raised THEN "raised" ELSE "returned"
    /\ UNCHANGED <<cluster, configs>>

\* scraper.get_configs()
GetConfigsCall ==
    /\ plPc = "ready"
    /\ LET result == GetConfigs(cluster) IN
        /\ scrapable' = result.mapping
        /\ configs' = result.value
        /\ plPc' = IF result.raised THEN "raised" ELSE "returned"
    /\ UNCHANGED cluster

----------------------------------------------------------------------------
(* main, Scraper.start and Scraper.stop *)

\* The cluster as one cycle may find it.
LoopClusters ==
    {[services |-> <<Service("ACTIVE", "td1")>>,
      taskDefs |-> [td \in TDArns |->
                      [family |-> FamilyOf(td),
                       containerDefinitions |-> <<Container(<<port>>)>>]],
      tasks |-> ts] :
        port \in {EnvVar("METRICS_PORT", "9090"), NoValue("METRICS_PORT")},
        ts \in {<<>>,
                <<Task("td1", <<Attachment(ENI, "ATTACHED",
                                           <<Address("10.0.0.5")>>)>>)>>,
                <<Task("td1", <<Attachment(ENI, "ATTACHED",
                                           <<Address("10.0.0.6")>>)>>)>>}}

NoFile == [state |-> "absent", data |-> <<>>]

\* main has built the Scraper (self.running is not assigned by __init__)
\* and installed the handlers; scraper.start() is about to run.
LoopStart ==
    /\ pc = "installed"
    /\ running = "unset"
    /\ shutdown_event = FALSE
    /\ file = NoFile
    /\ elapsed = 0
    /\ cycles = 0
    /\ signals = 0
    /\ outcome = "none"
    /\ prevOutcome = "none"
    /\ stopCalled = FALSE
    /\ stopInWait = FALSE
    /\ cyclesAtStop = 0
    /\ cyclesAtWaitStop = 0
    /\ leftWaitAt = 0

\* A stop() that does not wake the wait.
StopWithoutWake ==
    /\ running' = "False"
    /\ UNCHANGED shutdown_event

\* stop(): self.running = False; self.shutdown_event.set()
Stop ==
    /\ running' = "False"
    /\ shutdown_event' = TRUE

\* An exception that start() lets out.
ExceptUncaught ==
    /\ outcome' = "raised"
    /\ pc' = "returned"
    /\ elapsed' = 0
    /\ UNCHANGED <<running, shutdown_event>>

\* except Exception: log; finally: go on to the wait
Except ==
    /\ outcome' = "raised"
    /\ pc' = "wait"
    /\ elapsed' = 0
    /\ UNCHANGED <<running, shutdown_event>>

\* start(): self.running = True
StartBegin ==
    /\ pc = "installed"
    /\ running' = "True"
    /\ pc' = "check"
    /\ UNCHANGED <<shutdown_event, file, elapsed, cycles, signals, outcome,
                   prevOutcome, stopCalled, stopInWait, cyclesAtStop,
                   cyclesAtWaitStop, leftWaitAt>>
    /\ UNCHANGED plVars

\* while self.running: enter the try block
StartCycle ==
    /\ pc = "check"
    /\ running = "True"
    /\ cycles < MaxCycles
    /\ pc' = "fetch"
    /\ cycles' = cycles + 1
    /\ prevOutcome' = outcome
    /\ outcome' = "none"
    /\ UNCHANGED <<running, shutdown_event, file, elapsed, signals, stopCalled,
                   stopInWait, cyclesAtStop, cyclesAtWaitStop, leftWaitAt>>
    /\ UNCHANGED plVars

\* while self.running: the condition is false; start() returns
StartReturn ==
    /\ pc = "check"
    /\ running # "True"
    /\ pc' = "returned"
    /\ UNCHANGED <<running, shutdown_event, file, elapsed, cycles, signals,
                   outcome, prevOutcome, stopCalled, stopInWait, cyclesAtStop,
                   cyclesAtWaitStop, leftWaitAt>>
    /\ UNCHANGED plVars

\* configs = self.get_configs(), on the cluster as it is now
Fetch ==
    /\ pc = "fetch"
    /\ \E cl \in LoopClusters :
        LET result == GetConfigs(cl) IN
        /\ cluster' = cl
        /\ scrapable' = result.mapping
        /\ IF result.raised
           THEN Except /\ UNCHANGED configs
           ELSE /\ configs' = result.value
                /\ pc' = "write"
                /\ UNCHANGED <<running, shutdown_event, elapsed, outcome>>
    /\ plPc' = plPc
    /\ UNCHANGED <<file, cycles, signals, prevOutcome, stopCalled, stopInWait,
                   cyclesAtStop, cyclesAtWaitStop, leftWaitAt>>

\* get_configs raises because a call of the cluster API fails
FetchFails ==
    /\ pc = "fetch"
    /\ Except
    /\ UNCHANGED <<file, cycles, signals, prevOutcome, stopCalled, stopInWait,
                   cyclesAtStop, cyclesAtWaitStop, leftWaitAt>>
    /\ UNCHANGED plVars

\* with open(self.filename, "w") as f: json.dump(configs, f, indent=4)
Write ==
    /\ pc = "write"
    /\ file' = [state |-> "complete", data |-> configs]
    /\ outcome' = "ok"
    /\ pc' = "wait"
    /\ elapsed' = 0
    /\ UNCHANGED <<running, shutdown_event, cycles, signals, prevOutcome,
                   stopCalled, stopInWait, cyclesAtStop, cyclesAtWaitStop,
                   leftWaitAt>>
    /\ UNCHANGED plVars

\* open() raises (the file is as it was), or json.dump raises after open()
\* has truncated the file
WriteFails ==
    /\ pc = "write"
    /\ \/ file' = file
       \/ file' = [state |-> "partial", data |-> <<>>]
    /\ Except
    /\ UNCHANGED <<cycles, signals, prevOutcome, stopCalled, stopInWait,
                   cyclesAtStop, cyclesAtWaitStop, leftWaitAt>>
    /\ UNCHANGED plVars

\* self.shutdown_event.wait(timeout=self.interval): time passes
WaitTick ==
    /\ pc = "wait"
    /\ ~shutdown_event
    /\ elapsed + 1 < Interval
    /\ elapsed' = elapsed + 1
    /\ UNCHANGED <<pc, running, shutdown_event, file, cycles, signals, outcome,
                   prevOutcome, stopCalled, stopInWait, cyclesAtStop,
                   cyclesAtWaitStop, leftWaitAt>>
    /\ UNCHANGED plVars

\* the wait returns because the interval has elapsed
WaitTimeout ==
    /\ pc = "wait"
    /\ ~shutdown_event
    /\ elapsed + 1 >= Interval
    /\ leftWaitAt' = elapsed + 1
    /\ pc' = "check"
    /\ UNCHANGED <<running, shutdown_event, file, elapsed, cycles, signals,
                   outcome, prevOutcome, stopCalled, stopInWait, cyclesAtStop,
                   cyclesAtWaitStop>>
    /\ UNCHANGED plVars

\* the wait returns because the event is set
WaitWake ==
    /\ pc = "wait"
    /\ shutdown_event
    /\ leftWaitAt' = elapsed
    /\ pc' = "check"
    /\ UNCHANGED <<running, shutdown_event, file, elapsed, cycles, signals,
                   outcome, prevOutcome, stopCalled, stopInWait, cyclesAtStop,
                   cyclesAtWaitStop>>
    /\ UNCHANGED plVars

\* SIGINT or SIGTERM: the handler runs scraper.stop() in the main thread,
\* between two steps of start()
Signal ==
    /\ pc # "returned"
    /\ signals < MaxSignals
    /\ signals' = signals + 1
    /\ Stop
    /\ stopCalled' = TRUE
    /\ cyclesAtStop' = IF stopCalled THEN cyclesAtStop ELSE cycles
    /\ stopInWait' = (stopInWait \/ pc = "wait")
    /\ cyclesAtWaitStop' = IF pc = "wait" /\ ~stopInWait THEN cycles
                           ELSE cyclesAtWaitStop
    /\ UNCHANGED <<pc, file, elapsed, cycles, outcome, prevOutcome, leftWaitAt>>
    /\ UNCHANGED plVars

----------------------------------------------------------------------------
(* Specifications *)

PaginatorIdle ==
    /\ pages = <<>>
    /\ pgToken = ""
    /\ pgPc = "idle"
    /\ pgItems = <<>>
    /\ pgPos = 0
    /\ pgOut = <<>>
    /\ pgCalls = 0

ChunkIdle ==
    /\ chIn = <<>>
    /\ chSize = 1
    /\ chIdx = 0
    /\ chBuf = <<>>
    /\ chPc = "idle"
    /\ consumer = "none"
    /\ batches = <<>>
    /\ heldRefs = 0

PipelineIdle ==
    /\ cluster = NoCluster
    /\ scrapable = EmptyDict
    /\ configs = <<>>
    /\ plPc = "idle"

LoopIdle ==
    /\ pc = "idle"
    /\ running = "unset"
    /\ shutdown_event = FALSE
    /\ file = NoFile
    /\ elapsed = 0
    /\ cycles = 0
    /\ signals = 0
    /\ outcome = "none"
    /\ prevOutcome = "none"
    /\ stopCalled = FALSE
    /\ stopInWait = FALSE
    /\ cyclesAtStop = 0
    /\ cyclesAtWaitStop = 0
    /\ leftWaitAt = 0

\* The items of page p of a source: n items that name their page and place.
PageItems(p, n) == [k \in 1..n |-> 10 * p + k]

\* Finite paginated sources: a cursor with every page but the last, whose
\* token is absent or empty; any page may be empty or lack its items key.
Source(np, counts, noKey, lastAbsent) ==
    [p \in 1..np |->
        [hasItems |-> p \notin noKey,
         items |-> IF p \in noKey THEN <<>> ELSE PageItems(p, counts[p]),
         hasToken |-> p < np \/ ~lastAbsent,
         nextToken |-> IF p < np THEN Cursor(p)
                       ELSE IF lastAbsent THEN NoneValue ELSE ""]]

PageSources ==
    UNION {UNION {{Source(np, counts, noKey, lastAbsent) :
                        noKey \in SUBSET {p \in 1..np : counts[p] = 0},
                        lastAbsent \in BOOLEAN} :
                    counts \in [1..np -> 0..MaxPageItems]} :
            np \in 1..MaxPages}

InitPaginator ==
    /\ pages \in PageSources
    /\ PaginatorStart
    /\ ChunkIdle /\ PipelineIdle /\ LoopIdle

NextPaginator ==
    \/ PaginatorCall /\ UNCHANGED <<chVars, plVars, loopVars>>
    \/ PaginatorYield /\ UNCHANGED <<chVars, plVars, loopVars>>
    \/ PaginatorCheck /\ UNCHANGED <<chVars, plVars, loopVars>>

SpecPaginator == InitPaginator /\ [][NextPaginator]_vars /\ WF_vars(NextPaginator)

Arns(n) == [i \in 1..n |-> i]

InitChunk ==
    /\ \/ /\ consumer = "list"
          /\ chSize \in 1..MaxChunk
          /\ chIn \in {Arns(n) : n \in 0..MaxLen}
       \/ /\ consumer = "describe_services"
          /\ chSize = ServicesChunkSize
          /\ chIn \in {Arns(n) : n \in 0..MaxListedServices}
       \/ /\ consumer = "describe_tasks"
          /\ chSize = TasksChunkSize
          /\ chIn \in {Arns(n) : n \in 0..MaxListedTasks}
    /\ ChunkStart
    /\ PaginatorIdle /\ PipelineIdle /\ LoopIdle

NextChunk ==
    \/ ChunkNext /\ UNCHANGED <<pgVars, plVars, loopVars>>
    \/ ChunkResume /\ UNCHANGED <<pgVars, plVars, loopVars>>
    \/ ChunkExhausted /\ UNCHANGED <<pgVars, plVars, loopVars>>
    \/ ChunkReturn /\ UNCHANGED <<pgVars, plVars, loopVars>>

SpecChunk == InitChunk /\ [][NextChunk]_vars

InitFilter ==
    /\ cluster \in FilterClusters
    /\ PipelineStart
    /\ PaginatorIdle /\ ChunkIdle /\ LoopIdle

NextFilter ==
    GetScrapableTaskDefinitionsCall /\ UNCHANGED <<pgVars, chVars, loopVars>>

SpecFilter == InitFilter /\ [][NextFilter]_vars

InitJoin ==
    /\ cluster \in JoinClusters
    /\ PipelineStart
    /\ PaginatorIdle /\ ChunkIdle /\ LoopIdle

NextJoin ==
    GetConfigsCall /\ UNCHANGED <<pgVars, chVars, loopVars>>

SpecJoin == InitJoin /\ [][NextJoin]_vars

InitLoop ==
    /\ LoopStart
    /\ cluster = NoCluster
    /\ PipelineStart
    /\ PaginatorIdle /\ ChunkIdle

NextLoop ==
    \/ StartBegin /\ UNCHANGED <<pgVars, chVars>>
    \/ StartCycle /\ UNCHANGED <<pgVars, chVars>>
    \/ StartReturn /\ UNCHANGED <<pgVars, chVars>>
    \/ Fetch /\ UNCHANGED <<pgVars, chVars>>
    \/ FetchFails /\ UNCHANGED <<pgVars, chVars>>
    \/ Write /\ UNCHANGED <<pgVars, chVars>>
    \/ WriteFails /\ UNCHANGED <<pgVars, chVars>>
    \/ WaitTick /\ UNCHANGED <<pgVars, chVars>>
    \/ WaitTimeout /\ UNCHANGED <<pgVars, chVars>>
    \/ WaitWake /\ UNCHANGED <<pgVars, chVars>>
    \/ Signal /\ UNCHANGED <<pgVars, chVars>>

SpecLoop == InitLoop /\ [][NextLoop]_vars

----------------------------------------------------------------------------
(* Claims about make_paginator and chunk *)

PageItemsOf(p) == IF pages[p].hasItems THEN pages[p].items ELSE <<>>
AllPageItems == Concat([p \in 1..Len(pages) |-> PageItemsOf(p)])

\* C6: over a finite paginated source the paginator yields exactly the
\* concatenation of the pages' items, in order, calls the query function
\* once per page, and terminates; it stops on the token alone, so an empty
\* page with a cursor is followed by another call and a page with items and
\* no token is the last.
PaginationTerminates ==
    /\ [](pgCalls <= Len(pages))
    /\ [](pgPc = "done" => pgOut = AllPageItems /\ pgCalls = Len(pages))
    /\ <>(pgPc = "done")

\* Witness of C6: the paginator is done with a source of several pages, one
\* of them empty with a cursor, the last with items and no token.
PaginationWitness ==
    /\ pgPc = "done"
    /\ Len(pages) >= 3
    /\ \E p \in 1..(Len(pages) - 1) : PageItemsOf(p) = <<>>
    /\ PageItemsOf(Len(pages)) # <<>>
    /\ ~pages[Len(pages)].hasToken
    /\ pgOut = AllPageItems

CeilDiv(n, b) == (n + b - 1) \div b

\* The batches bs are input's batches of size size.
IsBatchingOf(bs, input, size) ==
    /\ Len(bs) = CeilDiv(Len(input), size)
    /\ \A i \in DOMAIN bs :
        /\ bs[i] # <<>>
        /\ Len(bs[i]) = IF i < Len(bs) THEN size
                        ELSE Len(input) - size * (Len(bs) - 1)
    /\ Concat(bs) = input

\* C7: chunk yields ceil(N/B) batches, all of size B but possibly the last,
\* none empty, whose concatenation is the input, for the consumer that reads
\* each batch before asking for the next and for the consumer that collects
\* the batches and reads them once the generator is exhausted.
BatchingForEveryConsumer ==
    chPc = "done" =>
        /\ IsBatchingOf(batches, chIn, chSize)
        /\ IsBatchingOf(Collected, chIn, chSize)

\* How many times arn has been sent in a describe call.
TimesSent(arn) ==
    Cardinality({<<i, j>> \in (DOMAIN batches) \X (1..Len(chIn)) :
                    j \in DOMAIN batches[i] /\ batches[i][j] = arn})

\* C8: every describe_services call carries 1 to 10 ARNs and every
\* describe_tasks call 1 to 100; no ARN is ever sent twice, and once the
\* loop is over every listed ARN has been sent in exactly one call; nothing
\* listed, no call.
BatchSizeLimits ==
    consumer \in {"describe_services", "describe_tasks"} =>
        /\ \A i \in DOMAIN batches :
            /\ Len(batches[i]) >= 1
            /\ Len(batches[i]) <= IF consumer = "describe_services" THEN 10 ELSE 100
        /\ chIn = <<>> => batches = <<>>
        /\ chPc \in {"yielded", "yielded_last"} =>
            \A arn \in Range(chIn) : TimesSent(arn) <= 1
        /\ chPc = "done" =>
            \A arn \in Range(chIn) : TimesSent(arn) = 1

\* Witness of C8: more than two hundred tasks were described in three calls.
BatchSizeWitness ==
    /\ consumer = "describe_tasks"
    /\ chPc = "done"
    /\ Len(chIn) > 200
    /\ Len(batches) = 3
    /\ Len(batches[1]) = 100

----------------------------------------------------------------------------
(* Claims about the discovery pipeline *)

\* The task definitions some service with status ACTIVE refers to.
ActivelyReferenced ==
    {cluster.services[i].taskDefinition :
        i \in {j \in DOMAIN cluster.services :
                    cluster.services[j].status = "ACTIVE"}}

\* The environment variables of all the containers of td, in order.
CombinedEnvironment(td) ==
    LET cds == cluster.taskDefs[td].containerDefinitions
    IN  Concat([c \in DOMAIN cds |-> cds[c].environment])

CoversRequired(td) ==
    \A name \in {"METRICS_PORT"} :
        \E i \in DOMAIN CombinedEnvironment(td) :
            CombinedEnvironment(td)[i].name = name

LastValueOf(td, name) ==
    LET env == CombinedEnvironment(td)
        last == CHOOSE i \in DOMAIN env :
                    /\ env[i].name = name
                    /\ \A j \in DOMAIN env : env[j].name = name => j <= i
    IN  env[last].value

\* C5: the mapping get_scrapable_task_definitions returns has an entry for
\* a task definition exactly when a service with status ACTIVE refers to it
\* and its containers' environment variables together contain every
\* required name; the entry holds the definition's family and the last
\* METRICS_PORT value.
ScrapableFilterComplete ==
    plPc = "returned" =>
        /\ DOMAIN scrapable =
            {td \in ActivelyReferenced : CoversRequired(td)}
        /\ \A td \in DOMAIN scrapable :
            /\ DOMAIN scrapable[td] = {"METRICS_PORT", "FAMILY"}
            /\ scrapable[td]["FAMILY"] = cluster.taskDefs[td].family
            /\ scrapable[td]["METRICS_PORT"] = LastValueOf(td, "METRICS_PORT")

\* Witness of C5: td1 is in the mapping with the port of the second of two
\* containers that define one; td2, which has a port too, is referred to by
\* a draining service only and is left out.
ScrapableFilterWitness ==
    /\ plPc = "returned"
    /\ "td1" \in DOMAIN scrapable
    /\ Len(cluster.taskDefs["td1"].containerDefinitions) = 2
    /\ \A c \in {1, 2} :
        cluster.taskDefs["td1"].containerDefinitions[c].environment # <<>>
    /\ scrapable["td1"]["METRICS_PORT"] = "8080"
    /\ "td2" \notin DOMAIN scrapable
    /\ CoversRequired("td2")
    /\ \E i \in DOMAIN cluster.services :
        cluster.services[i] = [status |-> "DRAINING", taskDefinition |-> "td2"]

\* The (task, attachment, detail) places of the described tasks.
DetailPlaces ==
    LET ts == cluster.tasks
        as(i) == IF ts[i].hasAttachments THEN ts[i].attachments ELSE <<>>
        ds(i, a) == IF as(i)[a].hasDetails THEN as(i)[a].details ELSE <<>>
    IN  UNION {UNION {{<<i, a, d>> : d \in DOMAIN ds(i, a)} :
                        a \in DOMAIN as(i)} : i \in DOMAIN ts}

TaskAt(place) == cluster.tasks[place[1]]
AttachmentAt(place) == TaskAt(place).attachments[place[2]]
DetailAt(place) == AttachmentAt(place).details[place[3]]

\* The places that stand for an attached network interface's address on a
\* task whose task definition is in the mapping.
AddressPlaces ==
    {place \in DetailPlaces :
        /\ TaskAt(place).taskDefinitionArn \in DOMAIN scrapable
        /\ AttachmentAt(place).type = "ElasticNetworkInterface"
        /\ AttachmentAt(place).status = "ATTACHED"
        /\ DetailAt(place).name = "privateIPv4Address"}

FamilyAt(place) == scrapable[TaskAt(place).taskDefinitionArn]["FAMILY"]
TargetAt(place) ==
    DetailAt(place).value \o ":"
        \o scrapable[TaskAt(place).taskDefinitionArn]["METRICS_PORT"]

\* How often target occurs in the group of family (0 without a group).
Occurrences(family, target) ==
    Cardinality(UNION {{<<g, k>> : k \in {j \in DOMAIN configs[g].targets :
                                            configs[g].targets[j] = target}} :
                        g \in {h \in DOMAIN configs :
                                configs[h].labels.family = family}})

\* C4: the group of family F holds the target ip:port once for each
\* (described task, attachment, detail) whose task definition is in the
\* mapping with family F and port, whose attachment is an ATTACHED
\* ElasticNetworkInterface and whose detail is privateIPv4Address = ip, and
\* holds nothing else; a family without target has no group.
JoinCorrect ==
    plPc = "returned" =>
        LET families == {configs[g].labels.family : g \in DOMAIN configs}
                        \cup {FamilyAt(place) : place \in AddressPlaces}
            targets == UNION {Range(configs[g].targets) : g \in DOMAIN configs}
                       \cup {TargetAt(place) : place \in AddressPlaces}
        IN  /\ \A g, h \in DOMAIN configs :
                configs[g].labels.family = configs[h].labels.family => g = h
            /\ \A g \in DOMAIN configs : configs[g].targets # <<>>
            /\ \A family \in families : \A target \in targets :
                Occurrences(family, target) =
                    Cardinality({place \in AddressPlaces :
                                    /\ FamilyAt(place) = family
                                    /\ TargetAt(place) = target})

\* Witness of C4: of two tasks with an attached interface at 10.0.0.5, the
\* first of a task definition that is not in the mapping, the second of one
\* that is, with port 9090 and family web, the second alone gave a target;
\* its other interface, not ATTACHED, gave none.
JoinWitness ==
    /\ plPc = "returned"
    /\ Len(cluster.tasks) = 2
    /\ cluster.tasks[1] =
        Task("td2", <<Attachment(ENI, "ATTACHED", <<Address("10.0.0.5")>>)>>)
    /\ "td2" \notin DOMAIN scrapable
    /\ cluster.tasks[2] =
        Task("td1", <<Attachment(ENI, "ATTACHED", <<Address("10.0.0.5")>>),
                      Attachment(ENI, "PRECREATED", <<Address("10.0.0.6")>>)>>)
    /\ configs = <<[targets |-> <<"10.0.0.5:9090">>,
                    labels |-> [family |-> "web"]]>>

\* The task definitions that are scrapable as the API reports them: a
\* service with status ACTIVE refers to them and a container sets
\* METRICS_PORT.
Reported == {td \in ActivelyReferenced : CoversRequired(td)}

\* The described tasks' attached interfaces' addresses that have a value.
ReportedAddresses ==
    {place \in DetailPlaces :
        /\ TaskAt(place).taskDefinitionArn \in Reported
        /\ AttachmentAt(place).type = "ElasticNetworkInterface"
        /\ AttachmentAt(place).status = "ATTACHED"
        /\ DetailAt(place).name = "privateIPv4Address"
        /\ DetailAt(place).hasValue}

\* td is without a malformed entry, and so is the task at place.
WellFormedDefinition(td) ==
    \A i \in DOMAIN CombinedEnvironment(td) : CombinedEnvironment(td)[i].hasValue
WellFormedTask(place) ==
    \A other \in DetailPlaces : other[1] = place[1] => DetailAt(other).hasValue

AllTargets == UNION {Range(configs[g].targets) : g \in DOMAIN configs}

\* C9: a response that lacks a field makes get_configs leave the affected
\* task definition or task out; get_configs raises no error, and every
\* other task definition's and task's targets are in the snapshot.
MalformedDataIsSkipped ==
    plPc # "ready" =>
        /\ plPc = "returned"
        /\ \A place \in ReportedAddresses :
            LET td == TaskAt(place).taskDefinitionArn IN
            WellFormedDefinition(td) /\ WellFormedTask(place) =>
                (DetailAt(place).value \o ":" \o LastValueOf(td, "METRICS_PORT"))
                    \in AllTargets

\* td sets METRICS_PORT, and never to an explicit value.
LacksPortValue(td) ==
    /\ CoversRequired(td)
    /\ \A i \in DOMAIN CombinedEnvironment(td) :
        CombinedEnvironment(td)[i].name = "METRICS_PORT" =>
            \/ ~CombinedEnvironment(td)[i].hasValue
            \/ CombinedEnvironment(td)[i].value = ""

\* C10: a scrapable task definition without an explicit port value gives,
\* for each attached network interface of its running tasks, a target with
\* the default port 8000 (stated of the calls that return).
DefaultPortFallback ==
    plPc = "returned" =>
        \A place \in ReportedAddresses :
            LacksPortValue(TaskAt(place).taskDefinitionArn) =>
                (DetailAt(place).value \o ":8000") \in AllTargets

----------------------------------------------------------------------------
(* Claims about the poll loop *)

\* C1: an exception in a cycle's get_configs or file write does not end the
\* loop and leaves the running flag as it was; the next cycle runs the
\* pipeline again, and after a cycle whose fetch and write succeed the file
\* holds exactly the target groups that cycle resolved.
CycleIsolation ==
    /\ outcome = "raised" /\ ~stopCalled => running = "True" /\ pc # "returned"
    /\ outcome = "raised" => pc \in {"wait", "check", "returned"}
    /\ prevOutcome = "raised" /\ pc = "returned" => stopCalled
    /\ outcome = "ok" =>
        /\ file = [state |-> "complete", data |-> configs]
        /\ ~GetConfigs(cluster).raised
        /\ configs = GetConfigs(cluster).value

\* Witness of C1: the cycle after one that raised has written its targets.
CycleIsolationWitness ==
    /\ prevOutcome = "raised"
    /\ outcome = "ok"
    /\ pc = "wait"
    /\ cycles >= 2
    /\ ~stopCalled
    /\ file = [state |-> "complete",
               data |-> <<[targets |-> <<"10.0.0.6:9090">>,
                           labels |-> [family |-> "web"]]>>]

\* C2: wherever the handler runs once main has installed it, after stop()
\* the loop condition is never again found true: no cycle starts after the
\* call.
StopEndsLoop == stopCalled => cycles = cyclesAtStop

\* C3: when stop() is called during the end-of-cycle wait, the wait ends
\* before the interval has elapsed and the loop exits without a new cycle.
ShutdownResponsive ==
    stopInWait =>
        /\ cycles = cyclesAtWaitStop
        /\ pc \in {"wait", "check", "returned"}
        /\ pc # "wait" => leftWaitAt < Interval

\* Witness of C3: stop() came after part of the interval, and start() has
\* returned.
ShutdownWitness ==
    /\ stopInWait
    /\ pc = "returned"
    /\ leftWaitAt > 0
    /\ leftWaitAt < Interval
    /\ cycles = cyclesAtWaitStop
    /\ cycles < MaxCycles

====
